---- MODULE Spec2Model ----
(***************************************************************************)
(* Realtime part of the chat server: the socket.io connection handlers of  *)
(* src/public/app.js (the build with the userSockets registry) and of      *)
(* src/server.js (the build without it).                                   *)
(*                                                                         *)
(* A connection is a server-side socket.  Its status is                    *)
(*   "idle"    not yet connected,                                          *)
(*   "open"    connected, its handlers receive events,                     *)
(*   "closing" force-terminated by disconnect(true), still a member of     *)
(*             io.sockets.sockets, its 'disconnect' handler not yet run,   *)
(*   "closed"  its 'disconnect' handler has run.                           *)
(* Whether disconnect(true) runs the victim's 'disconnect' handler inside  *)
(* the caller or later depends on the transport, so both are modelled.     *)
(*                                                                         *)
(* Spec     the realtime handlers, over a store with two registered users  *)
(* SpecHttp the routes /register, /login, /logout and /check-auth, over a  *)
(*          fresh store                                                    *)
(* SpecLog  the route /messages, applied to stored logs                    *)
(* SpecClient      the page of src/unnamed/part_000 against the realtime   *)
(*                 handlers of app.js                                      *)
(* SpecClientFair  the same, every arrived event being handled             *)
(***************************************************************************)
EXTENDS Integers, Sequences, FiniteSets, TLC

\* ---- bounds of the model
NConn == 2
NUsers == 2
MaxRows == 2

Conns == 1..NConn
UserIds == 1..NUsers
Names == {"alice", "bob"}
Texts == {"hi", "yo"}
\* a value JavaScript treats as missing (undefined / null / "" / 0)
NoId == 0
NoName == ""
NoText == "<undefined>"
NoConn == 0
NoTime == 0
NoPw == "<undefined>"
\* the readings of a clock: the store stamps the n-th row with n
Times == 1..MaxRows
\* browser contexts (cookie jars); connection c is opened by context CtxOf(c)
NCtx == 2
Ctxs == 1..NCtx
CtxOf(c) == ((c - 1) % NCtx) + 1

\* payloads of the client events; present = FALSE is an event with no payload
NoAuthData == [present |-> FALSE, userId |-> NoId, username |-> NoName]
Auth(u, n) == [present |-> TRUE, userId |-> u, username |-> n]
\* each user under the name of the same rank, user 1 also under the other name,
\* and the payloads with a field missing
NameOf(u) == IF u % 2 = 1 THEN "alice" ELSE "bob"
AuthData == {NoAuthData, Auth(NoId, "alice"), Auth(1, NoName), Auth(1, "bob")} \cup
            {Auth(u, NameOf(u)) : u \in UserIds}
NoMsgData == [present |-> FALSE, message |-> NoText]
MsgData == {NoMsgData} \cup [present : {TRUE}, message : Texts \cup {NoText}]

VARIABLES
  build,        \* "app": src/public/app.js, "server": src/server.js
  crashed,      \* the process died of an uncaught exception
  status,       \* per connection, see above
  userId,       \* socket.userId
  username,     \* socket.username
  authed,       \* history: an authenticate handler accepted an identity on it
  userSockets,  \* the registry Map userId -> socket.id (NoConn: no entry)
  pending,      \* INSERT queries in flight, in arrival order
  messages,     \* rows of the messages table, in insertion order
  emitted,      \* the events the last step emitted
  last,         \* the last step: what was handled, on which connection
  users,        \* rows of the users table, in insertion order
  userSeq,      \* the last value of the sequence behind users.id
  session,      \* per browser context, what its session carries
  held,         \* history: the identity of the context's last successful
                \* register or login with no logout since
  reqs,         \* HTTP requests suspended at an await
  resp,         \* the last HTTP response
  \* the page of src/unnamed/part_000 (one browser tab)
  socket,               \* "null", or the state of the socket object
  conn,                 \* the server-side connection its transport reaches
  socketAuthenticated,
  currentUser,
  currentUserId,
  view,                 \* "auth": the login form is shown; "chat"
  fetches,              \* fetch() calls of the page awaiting their response
  toServer,             \* events the page emitted, not yet handled by the server
  toClient,             \* events the server emitted to conn, not yet handled
  heard,                \* history: the socket got 'authenticated' since its last
                        \* connect, and no disconnect, auth_error or logout since
  opened                \* history: the server-side connections the page made

sockVars == <<crashed, status, userId, username, authed, userSockets, pending, emitted, last>>
httpVars == <<users, userSeq, session, held, reqs, resp>>
pageVars == <<socket, conn, socketAuthenticated, currentUser, currentUserId, view,
              fetches, toServer, toClient, heard, opened>>
vars == <<build, messages, sockVars, httpVars, pageVars>>

\* op: the event handled; c: its connection; ok: the handler accepted it (a valid
\* authenticate, a send that reached the store, an INSERT that succeeded);
\* uid: the userId of an accepted authenticate; old: the registry's entry for
\* it before the step; kicked: the sockets the step called disconnect(true) on;
\* bad: the payload of the authenticate lacked a field; pre: the status of c
\* before the step; late: the INSERT that completed belongs to a send that a
\* later send of the same connection has overtaken
NoLast == [op |-> "init", c |-> NoConn, uid |-> NoId, old |-> NoConn, kicked |-> {},
           bad |-> FALSE, pre |-> "idle", ok |-> FALSE, late |-> FALSE]

\* what a session carries; NoSession is a session with no userId (or none)
NoSession == [userId |-> NoId, username |-> NoName]
Sess(u, n) == [userId |-> u, username |-> n]

\* bcrypt.hash: the stored value is not the password; bcrypt.compare(pw, h)
\* is TRUE exactly for the password h was made from
Hash(pw) == <<"$2b$10$", pw>>
Compare(pw, h) == h = Hash(pw)

\* the response of an HTTP route; op = "none": no response was sent by the step
\* name: the username of the request body; known, pwOk: history, a row of users
\* had that username, and the body's password, when the route looked; down:
\* history, the store (or bcrypt.hash) failed under the request
NoResp == [op |-> "none", ctx |-> 0, name |-> NoName, known |-> FALSE, pwOk |-> FALSE,
           down |-> FALSE,
           status |-> 0, error |-> "", success |-> FALSE, authenticated |-> FALSE,
           username |-> NoName, userId |-> NoId, rows |-> <<>>]

Ev(to, ev, name, text) ==
  [to |-> to, ev |-> ev, username |-> name, message |-> text, created_at |-> NoTime]

\* io.sockets.sockets: the sockets whose 'disconnect' has not been emitted
IoSockets == {s \in Conns : status[s] \in {"open", "closing"}}

\* the page before its first script runs
InitPage ==
  /\ socket = "null"
  /\ conn = NoConn
  /\ socketAuthenticated = FALSE
  /\ currentUser = NoName
  /\ currentUserId = NoId
  /\ view = "auth"
  /\ fetches = {}
  /\ toServer = <<>>
  /\ toClient = <<>>
  /\ heard = FALSE
  /\ opened = {}

\* the server after construction: no socket yet
InitSock ==
  /\ build \in {"app", "server"}
  /\ crashed = FALSE
  /\ status = [c \in Conns |-> "idle"]
  /\ userId = [c \in Conns |-> NoId]
  /\ username = [c \in Conns |-> NoName]
  /\ authed = [c \in Conns |-> FALSE]
  /\ userSockets = [u \in UserIds |-> NoConn]
  /\ pending = <<>>
  /\ emitted = {}
  /\ last = NoLast

\* the store and the sessions the realtime part runs against: alice and bob
\* have registered, context 1 holds alice's session, context 2 has logged out
SeedUsers == <<[id |-> 1, username |-> "alice", password |-> Hash("secret1")],
               [id |-> 2, username |-> "bob", password |-> Hash("hunter22")]>>
SeedSession == [x \in Ctxs |-> IF x = 1 THEN Sess(1, "alice") ELSE NoSession]

Init ==
  /\ InitSock
  /\ messages = <<>>
  /\ users = SeedUsers
  /\ userSeq = Len(SeedUsers)
  /\ session = SeedSession
  /\ held = SeedSession
  /\ reqs = {}
  /\ resp = NoResp
  /\ InitPage

\* io.on('connection'): a fresh socket with no identity
OnConnection(c) ==
  /\ ~crashed
  /\ status[c] = "idle"
  /\ \A d \in Conns : d < c => status[d] # "idle"
  /\ status' = [status EXCEPT ![c] = "open"]
  /\ emitted' = {}
  /\ last' = [NoLast EXCEPT !.op = "connect", !.c = c]
  /\ UNCHANGED <<build, crashed, userId, username, authed, userSockets, pending, messages>>
  /\ UNCHANGED httpVars

\* the same, the event coming from a client that is not the page
Connect(c) == OnConnection(c) /\ UNCHANGED pageVars

\* an authenticate payload that is missing or lacks a userId or a username
Malformed(data) == ~data.present \/ data.userId = NoId \/ data.username = NoName

\* an IsValidAuth that forgets the username
IsValidAuthIdOnly(data) == data.present /\ data.userId # NoId

\* if (data && data.userId && data.username)
IsValidAuth(data) == data.present /\ data.userId # NoId /\ data.username # NoName

\* a ShouldKick that tests io's lookup the wrong way (!oldSocket)
ShouldKickUnknown(old, c) == old # NoConn /\ old \notin IoSockets /\ old # c

\* a ShouldKick without the comparison of the socket ids
ShouldKickAny(old, c) == old # NoConn /\ old \in IoSockets

\* an authenticate that forgets to disconnect the previous socket
ShouldKickNever(old, c) == FALSE

\* a ShouldKick that compares the socket ids the wrong way round
ShouldKickSame(old, c) == old # NoConn /\ old \in IoSockets /\ old = c

\* the previous socket of the user is disconnected when the registry has an
\* entry, the entry's socket is still known to io and it is not this socket
ShouldKick(old, c) == old # NoConn /\ old \in IoSockets /\ old # c

\* an OnDisconnect that empties the registry
OnDisconnectClear(reg, s) == [u \in DOMAIN reg |-> NoConn]

\* an OnDisconnect that deletes the user's entry whichever socket it names
OnDisconnectAlways(reg, s) ==
  IF userId[s] # NoId THEN [reg EXCEPT ![userId[s]] = NoConn] ELSE reg

\* the body of the 'disconnect' handler of socket s, on registry reg
OnDisconnect(reg, s) ==
  IF userId[s] # NoId /\ reg[userId[s]] = s
    THEN [reg EXCEPT ![userId[s]] = NoConn]
    ELSE reg

OnAuthenticate(c, data) ==
  /\ build = "app" /\ ~crashed
  /\ status[c] = "open"
  /\ IF IsValidAuth(data)
       THEN LET old == userSockets[data.userId]
                kick == ShouldKick(old, c)
            IN \E sync \in BOOLEAN :
                 /\ ~kick => ~sync
                 /\ status' = IF kick
                                THEN [status EXCEPT ![old] = IF sync THEN "closed" ELSE "closing"]
                                ELSE status
                 /\ userSockets' =
                      [(IF kick /\ sync THEN OnDisconnect(userSockets, old) ELSE userSockets)
                         EXCEPT ![data.userId] = c]
                 /\ userId' = [userId EXCEPT ![c] = data.userId]
                 /\ username' = [username EXCEPT ![c] = data.username]
                 /\ authed' = [authed EXCEPT ![c] = TRUE]
                 /\ emitted' = {Ev(c, "authenticated", NoName, "success")}
                 /\ last' = [NoLast EXCEPT !.op = "authenticate", !.c = c, !.uid = data.userId,
                                           !.old = old, !.bad = Malformed(data),
                                           !.kicked = IF kick THEN {old} ELSE {},
                                           !.pre = "open", !.ok = TRUE]
       ELSE /\ emitted' = {Ev(c, "auth_error", NoName, "Invalid authentication data")}
            /\ last' = [NoLast EXCEPT !.op = "authenticate", !.c = c, !.pre = "open",
                                      !.bad = Malformed(data)]
            /\ UNCHANGED <<status, userSockets, userId, username, authed>>
  /\ UNCHANGED <<build, crashed, pending, messages>>
  /\ UNCHANGED httpVars

\* the same, the event coming from a client that is not the page
AuthenticateApp(c, data) == OnAuthenticate(c, data) /\ UNCHANGED pageVars

\* src/server.js: the identity is taken as sent; an event with no payload throws
\* in the handler (sessionData.userId of undefined), which nothing catches
AuthenticateSrv(c, data) ==
  /\ build = "server" /\ ~crashed
  /\ status[c] = "open"
  /\ IF data.present
       THEN /\ userId' = [userId EXCEPT ![c] = data.userId]
            /\ username' = [username EXCEPT ![c] = data.username]
            /\ authed' = [authed EXCEPT ![c] = TRUE]
            /\ crashed' = crashed
            /\ last' = [NoLast EXCEPT !.op = "authenticate", !.c = c, !.uid = data.userId,
                                      !.bad = Malformed(data), !.pre = "open", !.ok = TRUE]
       ELSE /\ crashed' = TRUE
            /\ last' = [NoLast EXCEPT !.op = "authenticate", !.c = c, !.pre = "open",
                                      !.bad = TRUE]
            /\ UNCHANGED <<userId, username, authed>>
  /\ emitted' = {}
  /\ UNCHANGED <<build, status, userSockets, pending, messages>>
  /\ UNCHANGED <<httpVars, pageVars>>

\* a SendGate that only asks for a connected socket
SendGateOpen(c) == status[c] = "open"

\* the gate of send_message: app.js wants both fields, server.js the userId
SendGate(c) ==
  IF build = "app"
    THEN userId[c] # NoId /\ username[c] # NoName
    ELSE userId[c] # NoId

\* a catch block that tells every socket (io.emit for socket.emit)
OnQueryErrorToAll(c) == {Ev(s, "error", NoName, "Failed to send message") : s \in IoSockets}

\* what the catch block of send_message emits for the socket c
OnQueryError(c) == {Ev(c, "error", NoName, "Failed to send message")}

\* socket.on('send_message'), up to the await of pool.query
OnSendMessage(c, data) ==
  /\ ~crashed
  /\ status[c] = "open"
  /\ IF ~SendGate(c)
       THEN /\ emitted' = {Ev(c, "error", NoName, "Not authenticated")}
            /\ last' = [NoLast EXCEPT !.op = "send_message", !.c = c, !.pre = "open"]
            /\ UNCHANGED pending
       ELSE IF ~data.present
         THEN \* data.message of undefined throws inside the try block
              /\ emitted' = OnQueryError(c)
              /\ last' = [NoLast EXCEPT !.op = "send_message", !.c = c, !.pre = "open"]
              /\ UNCHANGED pending
         ELSE /\ Len(pending) + Len(messages) < MaxRows
              /\ pending' = Append(pending, [c |-> c, user_id |-> userId[c],
                                             username |-> username[c],
                                             message |-> data.message,
                                             overtaken |-> FALSE])
              /\ emitted' = {}
              /\ last' = [NoLast EXCEPT !.op = "send_message", !.c = c, !.pre = "open",
                                        !.ok = TRUE]
  /\ UNCHANGED <<build, crashed, status, userId, username, authed, userSockets, messages>>
  /\ UNCHANGED httpVars

\* the same, the event coming from a client that is not the page
SendMessage(c, data) == OnSendMessage(c, data) /\ UNCHANGED pageVars

RemoveAt(seq, i) == SubSeq(seq, 1, i - 1) \o SubSeq(seq, i + 1, Len(seq))

\* the columns username and message of the messages table are NOT NULL, and
\* user_id REFERENCES users(id)
RowAllowed(q) ==
  /\ q.username # NoName /\ q.message # NoText
  /\ \E i \in 1..Len(users) : users[i].id = q.user_id

\* a broadcast that reads the text from a field the row does not have
NewMessageNoText(name, text, at) ==
  {[Ev(s, "new_message", name, NoText) EXCEPT !.created_at = at] : s \in IoSockets}

\* a broadcast that skips the sockets that have not authenticated
NewMessageToAuthenticated(name, text, at) ==
  {[Ev(s, "new_message", name, text) EXCEPT !.created_at = at] :
     s \in {x \in IoSockets : userId[x] # NoId}}

\* io.emit('new_message', ...): one event per socket io knows
NewMessage(name, text, at) ==
  {[Ev(s, "new_message", name, text) EXCEPT !.created_at = at] : s \in IoSockets}

\* history: the queries received before seq[i] on the same socket and still
\* in flight are overtaken when seq[i] is broadcast
MarkOvertaken(seq, i) ==
  [j \in 1..Len(seq) |->
     IF j < i /\ seq[j].c = seq[i].c THEN [seq[j] EXCEPT !.overtaken = TRUE] ELSE seq[j]]

\* a broadcast of app.js that reads socket.username and data.message as they
\* are when the INSERT returns, instead of the row
BroadcastCurrent(q, row, now) == NewMessage(username[q.c], q.message, row.created_at)

\* what is broadcast once the INSERT of query q has stored row: app.js sends the
\* row RETURNING gave back; server.js sends socket.username and data.message as
\* they are now, stamped new Date() by its own clock, which reads now
Broadcast(q, row, now) ==
  IF build = "app"
    THEN NewMessage(row.username, row.message, row.created_at)
    ELSE NewMessage(username[q.c], q.message, now)

\* the INSERT of pending[i] completes; ok = FALSE is a rejected promise (a
\* constraint violation or the store being unavailable)
OnQueryResult(i, ok) ==
  /\ ~crashed
  /\ i \in 1..Len(pending)
  /\ ok => RowAllowed(pending[i])
  /\ LET q == pending[i]
         row == [user_id |-> q.user_id, username |-> q.username, message |-> q.message,
                 created_at |-> Len(messages) + 1]
     IN /\ pending' = RemoveAt(IF ok THEN MarkOvertaken(pending, i) ELSE pending, i)
        /\ IF ok
             THEN /\ messages' = Append(messages, row)
                  /\ \E now \in Times : emitted' = Broadcast(q, row, now)
             ELSE /\ messages' = messages
                  /\ emitted' = OnQueryError(q.c)
        /\ last' = [NoLast EXCEPT !.op = "query_done", !.c = q.c,
                                  !.pre = status[q.c], !.ok = ok, !.late = q.overtaken]
  /\ UNCHANGED <<build, crashed, status, userId, username, authed, userSockets>>
  /\ UNCHANGED httpVars

\* the same, the event coming from a client that is not the page
QueryDone(i, ok) == OnQueryResult(i, ok) /\ UNCHANGED pageVars

\* socket.on('disconnect'): the transport closed, or a forced termination
\* reaches the socket
OnClose(c) ==
  /\ ~crashed
  /\ status[c] \in {"open", "closing"}
  /\ status' = [status EXCEPT ![c] = "closed"]
  /\ userSockets' = IF build = "app" THEN OnDisconnect(userSockets, c) ELSE userSockets
  /\ emitted' = {}
  /\ last' = [NoLast EXCEPT !.op = "disconnect", !.c = c, !.pre = status[c]]
  /\ UNCHANGED <<build, crashed, userId, username, authed, pending, messages>>
  /\ UNCHANGED httpVars

\* the same, the event coming from a client that is not the page
Disconnect(c) == OnClose(c) /\ UNCHANGED pageVars

Next ==
  \/ \E c \in Conns : Connect(c)
  \/ \E c \in Conns, data \in AuthData : AuthenticateApp(c, data)
  \/ \E c \in Conns, data \in AuthData : AuthenticateSrv(c, data)
  \/ \E c \in Conns, data \in MsgData : SendMessage(c, data)
  \/ \E i \in 1..MaxRows, ok \in BOOLEAN : QueryDone(i, ok)
  \/ \E c \in Conns : Disconnect(c)

Spec == Init /\ [][Next]_vars

\* ---------------------------------------------------------------------------
\* The HTTP routes, run against a fresh store

\* bounds: values of the users.id sequence, requests suspended at an await
MaxSeq == 3
MaxReqs == 2
\* if (username.length < 3 || password.length < 6)
MinName == 3
MinPw == 6

\* request bodies: a field missing, a field too short, and well-formed ones
Body(n, pw) == [username |-> n, password |-> pw]
Bodies == {Body(NoName, "secret1"), Body("alice", NoPw), Body("al", "secret1"),
           Body("alice", "short"), Body("alice", "secret1"), Body("alice", "hunter22"),
           Body("bob", "secret1")}

Req(op, x, b) == [op |-> op, ctx |-> x, username |-> b.username, password |-> b.password]
Resp(op, x, n, st, err) ==
  [NoResp EXCEPT !.op = op, !.ctx = x, !.name = n, !.status = st, !.error = err]

InitHttp ==
  /\ InitSock
  /\ messages = <<>>
  /\ users = <<>>
  /\ userSeq = 0
  /\ session = [x \in Ctxs |-> NoSession]
  /\ held = [x \in Ctxs |-> NoSession]
  /\ reqs = {}
  /\ resp = NoResp
  /\ InitPage

\* a users table without the UNIQUE constraint
UniqueViolationNever(n) == FALSE

\* username VARCHAR(50) UNIQUE: the INSERT fails with code 23505
UniqueViolation(n) == \E i \in 1..Len(users) : users[i].username = n

\* a route that forgets to write the session
SetSessionNot(sess, x, u, n) == sess

\* req.session.userId = ...; req.session.username = ...
SetSession(sess, x, u, n) == [sess EXCEPT ![x] = Sess(u, n)]

\* the success body: app.js adds userId, server.js does not
Success(op, x, n, u) ==
  [Resp(op, x, n, 200, "") EXCEPT !.success = TRUE, !.username = n,
                                   !.userId = IF build = "app" THEN u ELSE NoId]

\* POST /register up to the first await: the body is validated
Register(x, b) ==
  /\ IF b.username = NoName \/ b.password = NoPw
       THEN /\ resp' = Resp("register", x, b.username, 400, "Username and password required")
            /\ reqs' = reqs
       ELSE IF Len(b.username) < MinName \/ Len(b.password) < MinPw
         THEN /\ resp' = Resp("register", x, b.username, 400,
                              "Username min 3 chars, password min 6 chars")
              /\ reqs' = reqs
         ELSE /\ Cardinality(reqs) < MaxReqs
              /\ reqs' = reqs \cup {Req("register", x, b)}
              /\ resp' = NoResp
  /\ UNCHANGED <<users, userSeq, session, held>>
  /\ UNCHANGED <<build, messages, sockVars, pageVars>>

\* POST /register from the INSERT on; ok = FALSE: bcrypt or the store fails.
\* The sequence behind users.id advances even when the INSERT is refused.
RegisterDone(r, ok) ==
  /\ r \in reqs /\ r.op = "register"
  /\ reqs' = reqs \ {r}
  /\ LET known == \E i \in 1..Len(users) : users[i].username = r.username
         id == userSeq + 1
     IN IF ~ok
          THEN /\ resp' = [Resp("register", r.ctx, r.username, 500, "Server error")
                             EXCEPT !.known = known, !.down = TRUE]
               /\ UNCHANGED <<users, userSeq, session, held>>
          ELSE /\ userSeq < MaxSeq
               /\ userSeq' = id
               /\ IF UniqueViolation(r.username)
                    THEN /\ resp' = [Resp("register", r.ctx, r.username, 400,
                                          "Username already exists") EXCEPT !.known = known]
                         /\ UNCHANGED <<users, session, held>>
                    ELSE /\ users' = Append(users, [id |-> id, username |-> r.username,
                                                    password |-> Hash(r.password)])
                         /\ session' = SetSession(session, r.ctx, id, r.username)
                         /\ held' = [held EXCEPT ![r.ctx] = Sess(id, r.username)]
                         /\ resp' = [Success("register", r.ctx, r.username, id)
                                       EXCEPT !.known = known]
  /\ UNCHANGED <<build, messages, sockVars, pageVars>>

\* POST /login up to the SELECT: the body is not validated
Login(x, b) ==
  /\ Cardinality(reqs) < MaxReqs
  /\ reqs' = reqs \cup {Req("login", x, b)}
  /\ resp' = NoResp
  /\ UNCHANGED <<users, userSeq, session, held>>
  /\ UNCHANGED <<build, messages, sockVars, pageVars>>

\* POST /login from the SELECT on; ok = FALSE: the store fails.  A missing
\* username is sent as NULL and matches no row; with a missing password
\* bcrypt.compare rejects ('data and hash arguments required'), which the
\* catch block turns into 500
LoginDone(r, ok) ==
  /\ r \in reqs /\ r.op = "login"
  /\ reqs' = reqs \ {r}
  /\ LET rows == {i \in 1..Len(users) : users[i].username = r.username}
         known == \E i \in 1..Len(users) : users[i].username = r.username
         pwOk == \E i \in 1..Len(users) :
                    users[i].username = r.username /\ users[i].password = Hash(r.password)
         hist(rs) == [rs EXCEPT !.known = known, !.pwOk = pwOk]
     IN IF ~ok
          THEN /\ resp' = [hist(Resp("login", r.ctx, r.username, 500, "Server error"))
                             EXCEPT !.down = TRUE]
               /\ UNCHANGED <<session, held>>
          ELSE IF rows = {}
            THEN /\ resp' = hist(Resp("login", r.ctx, r.username, 401, "Invalid credentials"))
                 /\ UNCHANGED <<session, held>>
            ELSE LET user == users[CHOOSE i \in rows : TRUE]
                 IN IF r.password = NoPw
                      THEN /\ resp' = hist(Resp("login", r.ctx, r.username, 500, "Server error"))
                           /\ UNCHANGED <<session, held>>
                      ELSE IF ~Compare(r.password, user.password)
                        THEN /\ resp' = hist(Resp("login", r.ctx, r.username, 401,
                                                   "Invalid credentials"))
                             /\ UNCHANGED <<session, held>>
                        ELSE /\ session' = SetSession(session, r.ctx, user.id, user.username)
                             /\ held' = [held EXCEPT ![r.ctx] = Sess(user.id, user.username)]
                             /\ resp' = hist(Success("login", r.ctx, user.username, user.id))
  /\ UNCHANGED <<users, userSeq>>
  /\ UNCHANGED <<build, messages, sockVars, pageVars>>

\* POST /logout: req.session.destroy()
Logout(x) ==
  /\ session' = [session EXCEPT ![x] = NoSession]
  /\ held' = [held EXCEPT ![x] = NoSession]
  /\ resp' = [Resp("logout", x, NoName, 200, "") EXCEPT !.success = TRUE]
  /\ UNCHANGED <<users, userSeq, reqs>>
  /\ UNCHANGED <<build, messages, sockVars, pageVars>>

\* GET /check-auth: app.js answers username and userId, server.js username
CheckAuth(x) ==
  /\ resp' = IF session[x].userId # NoId
               THEN [Resp("check-auth", x, NoName, 200, "")
                       EXCEPT !.authenticated = TRUE, !.username = session[x].username,
                              !.userId = IF build = "app" THEN session[x].userId ELSE NoId]
               ELSE Resp("check-auth", x, NoName, 200, "")
  /\ UNCHANGED <<users, userSeq, session, held, reqs>>
  /\ UNCHANGED <<build, messages, sockVars, pageVars>>

NextHttp ==
  \/ \E x \in Ctxs, b \in Bodies : Register(x, b)
  \/ \E r \in reqs, ok \in BOOLEAN : RegisterDone(r, ok)
  \/ \E x \in Ctxs, b \in Bodies : Login(x, b)
  \/ \E r \in reqs, ok \in BOOLEAN : LoginDone(r, ok)
  \/ \E x \in Ctxs : Logout(x)
  \/ \E x \in Ctxs : CheckAuth(x)

SpecHttp == InitHttp /\ [][NextHttp]_vars

\* ---------------------------------------------------------------------------
\* GET /messages, applied to stored logs

\* LIMIT 100
Limit == 100
\* bound: the longest log
MaxLog == 102

\* how created_at runs along the insertion order: rising, falling (the rows
\* were inserted newest first), or rising with every value used twice
Shapes == {"asc", "desc", "ties"}
Stamp(shape, i, n) ==
  IF shape = "asc" THEN i ELSE IF shape = "desc" THEN n + 1 - i ELSE (i + 1) \div 2

\* a log of n rows written by the two users of SeedUsers
Log(n, shape) ==
  [i \in 1..n |-> [user_id |-> SeedUsers[1 + (i % 2)].id,
                   username |-> SeedUsers[1 + (i % 2)].username,
                   message |-> IF i % 3 = 0 THEN "yo" ELSE "hi",
                   created_at |-> Stamp(shape, i, n)]]

InitLog ==
  /\ InitSock
  /\ users = SeedUsers
  /\ userSeq = Len(SeedUsers)
  /\ session = SeedSession
  /\ held = SeedSession
  /\ reqs = {}
  /\ resp = NoResp
  /\ InitPage
  /\ \E n \in 0..MaxLog, shape \in Shapes : messages = Log(n, shape)

\* SELECT username, message, created_at
Project(row) == [username |-> row.username, message |-> row.message,
                 created_at |-> row.created_at]

\* ORDER BY created_at DESC over the rows a and b of the table; rows of equal
\* created_at come in an order the store chooses: table order if flip, the
\* opposite if not
Before(log, flip, a, b) ==
  \/ log[a].created_at > log[b].created_at
  \/ log[a].created_at = log[b].created_at /\ (IF flip THEN a < b ELSE a > b)

\* ... ORDER BY created_at DESC LIMIT 100
SelectRecent(log, flip) ==
  LET idx == SortSeq([i \in 1..Len(log) |-> i], LAMBDA a, b : Before(log, flip, a, b))
      k == IF Len(log) < Limit THEN Len(log) ELSE Limit
  IN [j \in 1..k |-> Project(log[idx[j]])]

\* a route that forgets rows.reverse()
KeepOrder(seq) == seq

\* result.rows.reverse()
Reverse(seq) == [i \in 1..Len(seq) |-> seq[Len(seq) + 1 - i]]

\* GET /messages; ok = FALSE: the store fails
GetMessages(x, ok, flip) ==
  /\ resp' = IF session[x].userId = NoId
               THEN Resp("messages", x, NoName, 401, "Not authenticated")
               ELSE IF ~ok
                 THEN [Resp("messages", x, NoName, 500, "Server error") EXCEPT !.down = TRUE]
                 ELSE [Resp("messages", x, NoName, 200, "")
                         EXCEPT !.rows = Reverse(SelectRecent(messages, flip))]
  /\ UNCHANGED <<users, userSeq, session, held, reqs>>
  /\ UNCHANGED <<build, messages, sockVars, pageVars>>

NextLog == \E x \in Ctxs, ok \in BOOLEAN, flip \in BOOLEAN : GetMessages(x, ok, flip)

SpecLog == InitLog /\ [][NextLog]_vars

\* ---------------------------------------------------------------------------
\* The page of src/unnamed/part_000 against the realtime handlers of app.js

\* bounds: fetches awaiting their response, events the page has emitted that
\* the server has not handled
MaxFetch == 2
MaxQueue == 2

\* an event in a queue between the page and the server
Packet(ev, auth, msg) == [ev |-> ev, auth |-> auth, msg |-> msg]
FromServer(ev) == Packet(ev, NoAuthData, NoMsgData)

\* the body of a successful /login, /register or /check-auth for user u
Identity(u) == CHOOSE r \in {SeedUsers[i] : i \in 1..Len(SeedUsers)} : r.id = u
PageUsers == {SeedUsers[i].id : i \in 1..Len(SeedUsers)}

InitClient ==
  /\ InitSock
  /\ build = "app"
  /\ messages = <<>>
  /\ users = SeedUsers
  /\ userSeq = Len(SeedUsers)
  /\ session = [x \in Ctxs |-> NoSession]
  /\ held = [x \in Ctxs |-> NoSession]
  /\ reqs = {}
  /\ resp = NoResp
  /\ InitPage

\* the submit handler of the login form up to its await (checkAuth() on load
\* goes the same way); u: the user the server will answer for
Submit(u) ==
  /\ view = "auth"
  /\ Cardinality(fetches) < MaxFetch
  /\ fetches' = fetches \cup {[op |-> "login", u |-> u]}
  /\ UNCHANGED <<socket, conn, socketAuthenticated, currentUser, currentUserId, view,
                 toServer, toClient, heard, opened>>
  /\ UNCHANGED <<build, messages, sockVars, httpVars>>

\* the submit handler after its await; ok = FALSE: the answer is an error or
\* the fetch fails.  initSocket() keeps a connected socket; otherwise it strips
\* and disconnects the socket there is and makes a new one
AuthDone(f, ok) ==
  /\ f \in fetches /\ f.op = "login"
  /\ fetches' = fetches \ {f}
  /\ IF ~ok
       THEN UNCHANGED <<socket, conn, currentUser, currentUserId, view, toServer, toClient, heard>>
       ELSE /\ currentUser' = Identity(f.u).username
            /\ currentUserId' = Identity(f.u).id
            /\ view' = "chat"
            /\ IF socket = "connected"
                 THEN UNCHANGED <<socket, conn, toServer, toClient, heard>>
                 ELSE /\ socket' = "connecting"
                      /\ conn' = NoConn
                      /\ toServer' = <<>>
                      /\ toClient' = <<>>
                      /\ heard' = FALSE
  /\ UNCHANGED <<socketAuthenticated, opened>>
  /\ UNCHANGED <<build, messages, sockVars, httpVars>>

\* the transport of the page's socket reaches the server: io.on('connection')
\* runs for a new connection c and the server acknowledges
PageConnection(c) ==
  /\ socket = "connecting" /\ conn = NoConn
  /\ OnConnection(c)
  /\ conn' = c
  /\ opened' = opened \cup {c}
  /\ toServer' = <<>>
  /\ toClient' = <<FromServer("connect")>>
  /\ UNCHANGED <<socket, socketAuthenticated, currentUser, currentUserId, view, fetches, heard>>

\* the listeners of the page's socket: 'connect', 'authenticated', 'auth_error'
PageRecv ==
  /\ socket \in {"connecting", "connected"}
  /\ toClient # <<>>
  /\ toClient' = Tail(toClient)
  /\ LET p == Head(toClient)
     IN IF p.ev = "connect"
          THEN /\ socket' = "connected"
               /\ socketAuthenticated' = FALSE
               /\ heard' = FALSE
               /\ toServer' = IF currentUser # NoName /\ currentUserId # NoId
                                 THEN Append(toServer, Packet("authenticate",
                                               Auth(currentUserId, currentUser), NoMsgData))
                                 ELSE toServer
          ELSE /\ socketAuthenticated' = (p.ev = "authenticated")
               /\ heard' = (p.ev = "authenticated")
               /\ UNCHANGED <<socket, toServer>>
  /\ UNCHANGED <<conn, currentUser, currentUserId, view, fetches, opened>>
  /\ UNCHANGED <<build, messages, sockVars, httpVars>>

\* a server that forgets socket.emit('authenticated')
RepliesNone(evts, c) == <<>>

\* what the server's step sends to socket c that a listener of the page acts
\* on; the listeners of 'new_message' and 'error' only write to the document
Replies(evts, c) ==
  IF \E e \in evts : e.to = c /\ e.ev \in {"authenticated", "auth_error"}
    THEN <<FromServer((CHOOSE e \in evts : e.to = c /\ e.ev \in {"authenticated", "auth_error"}).ev)>>
    ELSE <<>>

\* the server handles the oldest event the page emitted on its connection
ServerRecv ==
  /\ conn # NoConn
  /\ toServer # <<>>
  /\ LET p == Head(toServer)
     IN IF p.ev = "authenticate"
          THEN OnAuthenticate(conn, p.auth)
          ELSE OnSendMessage(conn, p.msg)
  /\ toServer' = Tail(toServer)
  /\ toClient' = toClient \o Replies(emitted', conn)
  /\ UNCHANGED <<socket, conn, socketAuthenticated, currentUser, currentUserId, view,
                 fetches, heard, opened>>

\* the page sees its transport close (the network, or the server closed it);
\* a connected socket fires 'disconnect'
PageDisconnect ==
  /\ socket \in {"connecting", "connected"}
  /\ conn # NoConn
  /\ socket' = "disconnected"
  /\ conn' = NoConn
  /\ toServer' = <<>>
  /\ toClient' = <<>>
  /\ socketAuthenticated' = IF socket = "connected" THEN FALSE ELSE socketAuthenticated
  /\ heard' = FALSE
  /\ UNCHANGED <<currentUser, currentUserId, view, fetches, opened>>
  /\ UNCHANGED <<build, messages, sockVars, httpVars>>

\* reconnection: true
PageReconnect ==
  /\ socket = "disconnected"
  /\ socket' = "connecting"
  /\ UNCHANGED <<conn, socketAuthenticated, currentUser, currentUserId, view, fetches,
                 toServer, toClient, heard, opened>>
  /\ UNCHANGED <<build, messages, sockVars, httpVars>>

\* a sendMessage() that forgets the socketAuthenticated test
CanSendConnected == socket = "connected"

\* sendMessage() gets past its two returns
CanSend == socket = "connected" /\ socketAuthenticated

\* sendMessage() with a non-empty text
SendClick(t) ==
  /\ CanSend
  /\ Len(toServer) < MaxQueue
  /\ toServer' = Append(toServer, Packet("send_message", NoAuthData,
                                         [present |-> TRUE, message |-> t]))
  /\ UNCHANGED <<socket, conn, socketAuthenticated, currentUser, currentUserId, view,
                 fetches, toClient, heard, opened>>
  /\ UNCHANGED <<build, messages, sockVars, httpVars>>

\* the click handler of logoutBtn up to its await
LogoutClick ==
  /\ view = "chat"
  /\ Cardinality(fetches) < MaxFetch
  /\ fetches' = fetches \cup {[op |-> "logout", u |-> NoId]}
  /\ UNCHANGED <<socket, conn, socketAuthenticated, currentUser, currentUserId, view,
                 toServer, toClient, heard, opened>>
  /\ UNCHANGED <<build, messages, sockVars, httpVars>>

\* the click handler of logoutBtn after its await; ok = FALSE: fetch throws
LogoutDone(f, ok) ==
  /\ f \in fetches /\ f.op = "logout"
  /\ fetches' = fetches \ {f}
  /\ IF ok
       THEN /\ socket' = "null"
            /\ conn' = NoConn
            /\ toServer' = <<>>
            /\ toClient' = <<>>
            /\ socketAuthenticated' = FALSE
            /\ heard' = FALSE
            /\ view' = "auth"
            /\ currentUser' = NoName
            /\ currentUserId' = NoId
       ELSE UNCHANGED <<socket, conn, toServer, toClient, socketAuthenticated, heard, view,
                        currentUser, currentUserId>>
  /\ UNCHANGED opened
  /\ UNCHANGED <<build, messages, sockVars, httpVars>>

\* an authenticate of a client that is not the page
OtherAuthenticate(c, data) == c \notin opened /\ AuthenticateApp(c, data)

NextClient ==
  \/ \E u \in PageUsers : Submit(u)
  \/ \E f \in fetches, ok \in BOOLEAN : AuthDone(f, ok)
  \/ \E c \in Conns : PageConnection(c)
  \/ PageRecv
  \/ ServerRecv
  \/ PageDisconnect
  \/ PageReconnect
  \/ \E t \in {"hi"} : SendClick(t)
  \/ LogoutClick
  \/ \E f \in fetches, ok \in BOOLEAN : LogoutDone(f, ok)
  \/ \E c \in Conns : Connect(c)
  \/ \E c \in Conns, data \in AuthData : OtherAuthenticate(c, data)
  \/ \E i \in 1..MaxRows, ok \in BOOLEAN : QueryDone(i, ok)
  \/ \E c \in Conns : Disconnect(c)

SpecClient == InitClient /\ [][NextClient]_vars

\* the page learns that its transport was closed by the server
PageClosed == conn # NoConn /\ status[conn] # "open" /\ PageDisconnect

\* every event that has arrived is handled: the listeners of the page run,
\* the handlers of the server run, and a closed transport is noticed
SpecClientFair ==
  SpecClient /\ WF_vars(PageRecv) /\ WF_vars(ServerRecv) /\ WF_vars(PageClosed)

\* ---------------------------------------------------------------------------
\* Claims

Rejected(c) == {Ev(c, "error", NoName, "Not authenticated")}

\* C1: a send_message handled on a connection on which no authenticate has
\* succeeded is answered with exactly one error event, to that connection, and
\* adds no query to the store, no row and no new_message broadcast.
C1_SendBeforeAuthRejected ==
  [][ (last'.op = "send_message" /\ ~authed[last'.c])
        => /\ emitted' = Rejected(last'.c)
           /\ pending' = pending
           /\ messages' = messages ]_vars

\* reached: an unauthenticated connection was refused while another connection
\* is authenticated
C1_Witness ==
  /\ last.op = "send_message"
  /\ ~authed[last.c]
  /\ emitted = Rejected(last.c)
  /\ \E d \in Conns : d # last.c /\ authed[d] /\ status[d] = "open"

\* C2: when connection B authenticates as user U while the registry names a
\* different connection A for U, or a different open connection A is bound to
\* U, the step calls disconnect(true) on A if io still knows it, A is not open
\* afterwards and the registry maps U to B; this holds whether A's disconnect
\* handler ran inside the step (A closed) or is still to come (A closing).
C2_SupersedeOldConnection ==
  [][ \A a \in Conns :
        ( /\ build = "app"
          /\ last'.op = "authenticate" /\ last'.ok
          /\ a # last'.c
          /\ \/ userSockets[last'.uid] = a
             \/ status[a] = "open" /\ userId[a] = last'.uid )
        => /\ status'[a] \in {"closing", "closed"}
           /\ (a \in IoSockets => last'.kicked = {a})
           /\ userSockets'[last'.uid] = last'.c ]_vars

\* reached: the old connection's disconnect handler ran inside the authenticate
\* of the new one, which the registry now names
C2_Witness ==
  /\ last.op = "authenticate" /\ last.ok
  /\ last.kicked # {}
  /\ \A a \in last.kicked : status[a] = "closed" /\ userId[a] = last.uid
  /\ userSockets[last.uid] = last.c

\* C3: the disconnect handler of a connection leaves every registry entry that
\* names another connection as it is; so the belated disconnect of a
\* superseded connection A does not evict its successor B.
C3_StaleDisconnectKeepsSuccessor ==
  [][ \A u \in UserIds :
        ( /\ last'.op = "disconnect"
          /\ userSockets[u] # NoConn
          /\ userSockets[u] # last'.c )
        => userSockets'[u] = userSockets[u] ]_vars

\* reached: a force-terminated connection bound to U had its disconnect handled
\* while the registry names another, open, connection for U
C3_Witness ==
  /\ last.op = "disconnect" /\ last.pre = "closing"
  /\ userId[last.c] # NoId
  /\ userSockets[userId[last.c]] \notin {NoConn, last.c}
  /\ status[userSockets[userId[last.c]]] = "open"

\* C4: every registry entry U -> c names a connection that is open and bound to
\* U, or one that was force-terminated and whose disconnect is still to be
\* handled.
C4_RegistryEntryLive ==
  \A u \in UserIds :
    userSockets[u] # NoConn
      => \/ status[userSockets[u]] = "open" /\ userId[userSockets[u]] = u
         \/ status[userSockets[u]] = "closing"

\* C5: in the build with the registry, at most one open connection is bound to
\* any userId.
C5_OneOpenConnectionPerUser ==
  build = "app"
    => \A u \in UserIds :
         Cardinality({c \in Conns : status[c] = "open" /\ userId[c] = u}) <= 1

\* reached: two connections are bound to the same user, one open and named by
\* the registry, the other force-terminated
C5_Witness ==
  /\ build = "app"
  /\ \E a, b \in Conns :
       /\ a # b
       /\ userId[a] # NoId /\ userId[a] = userId[b]
       /\ status[a] = "closing" /\ status[b] = "open"
       /\ userSockets[userId[b]] = b

\* C6: in the build with the registry, once a connection is bound to an
\* identity, no step changes its userId or its username.
C6_BindingFixedOnceAuthenticated ==
  [][ \A c \in Conns :
        (build = "app" /\ userId[c] # NoId)
          => userId'[c] = userId[c] /\ username'[c] = username[c] ]_vars

AuthError(c) == {Ev(c, "auth_error", NoName, "Invalid authentication data")}

\* C7: in the build with the registry, an authenticate whose payload is missing
\* or lacks a userId or a username emits auth_error to its connection only and
\* changes no connection's status or binding and no registry entry, and calls
\* disconnect(true) on nothing; an authenticate with a complete payload, on any
\* open connection, is acknowledged and binds the connection as asked.
C7_BadAuthenticateIsLocal ==
  [][ (build = "app" /\ last'.op = "authenticate")
        => IF last'.bad
             THEN /\ emitted' = AuthError(last'.c)
                  /\ last'.kicked = {}
                  /\ status' = status
                  /\ userId' = userId /\ username' = username
                  /\ userSockets' = userSockets
             ELSE /\ emitted' = {Ev(last'.c, "authenticated", NoName, "success")}
                  /\ status'[last'.c] = "open"
                  /\ userId'[last'.c] = last'.uid
                  /\ userSockets'[last'.uid] = last'.c ]_vars

\* reached: an authenticated connection, named by the registry, was answered
\* auth_error and is still open and bound
C7_Witness ==
  /\ build = "app"
  /\ last.op = "authenticate" /\ last.bad
  /\ emitted = AuthError(last.c)
  /\ status[last.c] = "open"
  /\ userId[last.c] # NoId
  /\ userSockets[userId[last.c]] = last.c

Recipients == {e.to : e \in emitted}

\* C8: when an INSERT succeeds, the step emits new_message events only, one to
\* every open connection whether authenticated or not, and none to a connection
\* that is closed or not yet connected.
C8_BroadcastToEveryOpenConnection ==
  (last.op = "query_done" /\ last.ok)
    => /\ \A e \in emitted : e.ev = "new_message"
       /\ \A c \in Conns : status[c] = "open" => c \in Recipients
       /\ \A c \in Conns : status[c] \in {"idle", "closed"} => c \notin Recipients

\* reached: a broadcast went to an open connection that never authenticated,
\* while another connection is closed
C8_Witness ==
  /\ last.op = "query_done" /\ last.ok
  /\ \E c \in Conns : status[c] = "open" /\ userId[c] = NoId /\ c \in Recipients
  /\ \E d \in Conns : status[d] = "closed"

\* C9: when an INSERT fails, the step emits one error event, to the sending
\* connection, stores no row, takes the failed query out of the queries in
\* flight without adding one, and changes no registry entry and no connection's
\* status or binding.
C9_FailedInsertIsLocal ==
  [][ (last'.op = "query_done" /\ ~last'.ok)
        => /\ emitted' = {Ev(last'.c, "error", NoName, "Failed to send message")}
           /\ messages' = messages
           /\ \E i \in 1..Len(pending) :
                pending[i].c = last'.c /\ pending' = RemoveAt(pending, i)
           /\ userSockets' = userSockets
           /\ status' = status
           /\ userId' = userId /\ username' = username ]_vars

\* reached: an INSERT failed while a connection other than the sender is open
C9_Witness ==
  /\ last.op = "query_done" /\ ~last.ok
  /\ Recipients = {last.c}
  /\ messages = <<>>
  /\ \E d \in Conns : d # last.c /\ status[d] = "open"

\* C10: when a connection that the registry already names for U authenticates
\* again as U, the step calls disconnect(true) on nothing, changes no
\* connection's status and leaves the registry as it was.
C10_ReRegisterIsNoOp ==
  [][ ( /\ build = "app"
        /\ last'.op = "authenticate" /\ last'.ok
        /\ userSockets[last'.uid] = last'.c )
        => /\ last'.kicked = {}
           /\ status' = status
           /\ userSockets' = userSockets ]_vars

\* reached: a connection authenticated as the user the registry already named
\* it for
C10_Witness ==
  /\ build = "app"
  /\ last.op = "authenticate" /\ last.ok
  /\ last.old = last.c
  /\ userSockets[last.uid] = last.c
  /\ status[last.c] = "open"

\* C11: handling the disconnect of a connection on which no authenticate ever
\* succeeded leaves the registry as it was and changes neither the status nor
\* the identity of any other connection.
C11_UnauthenticatedDisconnectNoRegistryAction ==
  [][ (last'.op = "disconnect" /\ ~authed[last'.c])
        => /\ userSockets' = userSockets
           /\ \A d \in Conns \ {last'.c} :
                 /\ status'[d] = status[d]
                 /\ userId'[d] = userId[d]
                 /\ username'[d] = username[d] ]_vars

\* reached: a connection that never authenticated has disconnected while the
\* registry holds an entry for another, open connection
C11_Witness ==
  /\ build = "app"
  /\ last.op = "disconnect" /\ last.pre = "open"
  /\ ~authed[last.c]
  /\ status[last.c] = "closed"
  /\ \E u \in UserIds : userSockets[u] \in Conns \ {last.c} /\ status[userSockets[u]] = "open"

\* C12: when the 'disconnect' handler runs for connection c, every user whose
\* registry entry is c has no entry afterwards, and every other entry is as
\* it was.
C12_DisconnectRemovesOwnEntry ==
  [][ (build = "app" /\ last'.op = "disconnect")
        => \A u \in UserIds :
             /\ userSockets[u] = last'.c => userSockets'[u] = NoConn
             /\ userSockets[u] # last'.c => userSockets'[u] = userSockets[u] ]_vars

\* C17: in either build, a step that handles an authenticate or a send_message
\* the handler does not accept (a payload that is missing or lacks a field)
\* leaves the process alive, the registry as it was and every other
\* connection's status and identity unchanged.
C17_MalformedEventIsLocal ==
  [][ (last'.op \in {"authenticate", "send_message"} /\ ~last'.ok)
        => /\ ~crashed'
           /\ userSockets' = userSockets
           /\ \A d \in Conns \ {last'.c} :
                 /\ status'[d] = status[d]
                 /\ userId'[d] = userId[d]
                 /\ username'[d] = username[d] ]_vars

\* C18: a connection of app.js that is open and bound to an identity was opened
\* by a browser context whose session carries that userId and username, and
\* every row of the messages table carries the identity of some session.
C18_HandshakeBoundToSession ==
  build = "app" =>
    /\ \A c \in Conns :
          (status[c] = "open" /\ userId[c] # NoId)
            => session[CtxOf(c)] = Sess(userId[c], username[c])
    /\ \A i \in 1..Len(messages) :
          \E x \in Ctxs : session[x] = Sess(messages[i].user_id, messages[i].username)

\* C19 as stated: the new_message of a send is never broadcast after the
\* new_message of a send the same connection made later.
C19_BroadcastInArrivalOrder ==
  ~(last.op = "query_done" /\ last.ok /\ last.late)

\* C19: messages are broadcast in the order their INSERTs complete: new_message
\* events are emitted only by the step in which an INSERT succeeds, and all of
\* them carry the message of the query that completed in that step, also when
\* an earlier send of the same connection is still in flight.
C19_BroadcastInCompletionOrder ==
  [][ /\ (\E e \in emitted' : e.ev = "new_message") => (last'.op = "query_done" /\ last'.ok)
      /\ (last'.op = "query_done" /\ last'.ok)
           => \E i \in 1..Len(pending) :
                /\ pending[i].c = last'.c
                /\ Len(pending') = Len(pending) - 1
                /\ \A j \in 1..Len(pending') :
                      pending'[j].message = pending[IF j < i THEN j ELSE j + 1].message
                /\ \A e \in emitted' : e.ev = "new_message" /\ e.message = pending[i].message
                /\ \A s \in IoSockets : \E e \in emitted' : e.to = s ]_vars

\* reached: m1 and m2 came from one connection in this order, m2's INSERT
\* completed first and was broadcast, and m1 has now been broadcast after it
C19_Witness ==
  /\ build = "app"
  /\ last.op = "query_done" /\ last.ok /\ last.late
  /\ Len(messages) = 2
  /\ messages[1].message = "yo" /\ messages[2].message = "hi"
  /\ \E e \in emitted : e.ev = "new_message" /\ e.message = "hi" /\ e.to # last.c

\* the query a send_message of connection c with text t puts in flight
Captured(c, t) == [c |-> c, user_id |-> userId[c], username |-> username[c],
                   message |-> t, overtaken |-> FALSE]
\* the row the store makes of query q
RowOf(q) == [user_id |-> q.user_id, username |-> q.username, message |-> q.message,
             created_at |-> Len(messages) + 1]
\* seq without its i-th element, whatever the history flags
SameQueries(seq, i, after) ==
  /\ Len(after) = Len(seq) - 1
  /\ \A j \in 1..Len(after) :
        LET k == IF j < i THEN j ELSE j + 1
        IN [after[j] EXCEPT !.overtaken = FALSE] = [seq[k] EXCEPT !.overtaken = FALSE]

\* C20: in app.js a send_message that passes the gate puts in flight one query
\* carrying the userId and the username the connection is bound to at that
\* moment; nothing changes a query in flight; a query leaves at its completion
\* only; a completion that succeeds appends exactly the row of that query and
\* emits to each socket exactly one new_message with the row's username,
\* message and created_at; a completion that fails appends and broadcasts
\* nothing; and no other step appends a row or emits a new_message.
C20_OneRowOneBroadcastAsCaptured ==
  [][ build = "app" =>
      /\ (last'.op = "send_message" /\ last'.ok)
           => /\ \E t \in Texts \cup {NoText} : pending' = Append(pending, Captured(last'.c, t))
              /\ messages' = messages
      /\ (last'.op = "query_done")
           => \E i \in 1..Len(pending) :
                /\ pending[i].c = last'.c
                /\ SameQueries(pending, i, pending')
                /\ IF last'.ok
                     THEN /\ messages' = Append(messages, RowOf(pending[i]))
                          /\ emitted' = {[to |-> s, ev |-> "new_message",
                                          username |-> RowOf(pending[i]).username,
                                          message |-> RowOf(pending[i]).message,
                                          created_at |-> RowOf(pending[i]).created_at] :
                                           s \in IoSockets}
                     ELSE /\ messages' = messages
                          /\ \A e \in emitted' : e.ev # "new_message"
      /\ (last'.op \notin {"send_message", "query_done"} \/ ~last'.ok)
           => /\ (last'.op # "query_done" => pending' = pending)
              /\ messages' = messages
              /\ \A e \in emitted' : e.ev # "new_message" ]_vars

\* reached: a row was stored and broadcast under the identity captured at
\* receipt although the sending connection was re-bound to another identity
\* and then disconnected while the INSERT was in flight
C20_Witness ==
  /\ build = "app"
  /\ last.op = "query_done" /\ last.ok
  /\ last.pre = "closed"
  /\ messages # <<>>
  /\ messages[Len(messages)].username # username[last.c]
  /\ messages[Len(messages)].user_id # userId[last.c]
  /\ \E e \in emitted : e.ev = "new_message" /\ e.username = messages[Len(messages)].username

\* C13: the usernames of the users table are pairwise different after every
\* step, and a POST /register whose INSERT finds its username in the table is
\* answered 400 'Username already exists', adds no row and leaves every
\* session as it was; this covers the second of two requests in sequence and
\* the loser of two in flight together.
C13_NoTwoRegistrationsOfOneName ==
  [][ /\ \A i, j \in 1..Len(users') : users'[i].username = users'[j].username => i = j
      /\ (resp'.op = "register" /\ resp'.known /\ ~resp'.down)
           => /\ resp'.status = 400 /\ resp'.error = "Username already exists"
              /\ ~resp'.success
              /\ users' = users
              /\ session' = session ]_vars

\* reached: two contexts asked for the same name; one owns the only row and a
\* session, the other got to the INSERT (the sequence moved) and was refused
C13_Witness ==
  /\ resp.op = "register" /\ resp.known
  /\ resp.status = 400 /\ resp.error = "Username already exists"
  /\ Len(users) = 1 /\ users[1].username = resp.name
  /\ userSeq = 2
  /\ session[resp.ctx] = NoSession
  /\ \E x \in Ctxs \ {resp.ctx} : session[x] = Sess(users[1].id, resp.name)

\* C14: a POST /login that names an existing user with a password that is not
\* that user's, the store answering, gets 401 'Invalid credentials' (what an
\* unknown username gets) and leaves every session as it was.
C14_WrongPasswordLooksLikeUnknownUser ==
  [][ (resp'.op = "login" /\ resp'.known /\ ~resp'.pwOk /\ ~resp'.down)
        => /\ resp'.status = 401 /\ resp'.error = "Invalid credentials"
           /\ session' = session ]_vars

\* C16: the session of every context is the identity of its last successful
\* register or login with no logout since (none otherwise); GET /check-auth
\* answers authenticated with that username (and, in app.js, that userId) when
\* there is one and not authenticated otherwise; a register or login that
\* fails leaves every session as it was.
C16_CheckAuthTracksSession ==
  [][ /\ session' = held'
      /\ resp'.op = "check-auth"
           => IF held[resp'.ctx] # NoSession
                THEN /\ resp'.authenticated
                     /\ resp'.username = held[resp'.ctx].username
                     /\ build = "app" => resp'.userId = held[resp'.ctx].userId
                ELSE ~resp'.authenticated /\ resp'.username = NoName /\ resp'.userId = NoId
      /\ (resp'.op \in {"register", "login"} /\ ~resp'.success) => session' = session ]_vars

\* reached: check-auth answers with the identity context x logged in with,
\* which is not the one it registered, while the other context, which had
\* registered that identity, has logged out
C16_Witness ==
  /\ build = "app"
  /\ resp.op = "check-auth" /\ resp.authenticated
  /\ Len(users) = 2
  /\ resp.userId = users[1].id /\ resp.username = users[1].username
  /\ \E y \in Ctxs \ {resp.ctx} : session[y] = NoSession
  /\ userSeq = 2

\* how many rows of seq carry created_at = t
Stamped(seq, t) == Cardinality({i \in 1..Len(seq) : seq[i].created_at = t})

\* C15: for a log of n rows, a GET /messages with a session returns min(100, n)
\* rows, each one the projection of a row of the log, in non-decreasing
\* created_at, taking no more rows of any created_at than the log has, and
\* no row left out is newer than a row returned; without a session the answer
\* is 401 and carries no row.
C15_RecentWindowAscending ==
  /\ (resp.op = "messages" /\ resp.status = 200) =>
       LET r == resp.rows
           n == Len(messages)
       IN /\ session[resp.ctx].userId # NoId
          /\ Len(r) = IF n < 100 THEN n ELSE 100
          /\ \A i \in 1..Len(r) : \E j \in 1..n : r[i] = Project(messages[j])
          /\ \A i \in 1..(Len(r) - 1) : r[i].created_at <= r[i + 1].created_at
          /\ \A j \in 1..n :
                LET t == messages[j].created_at
                IN /\ Stamped(r, t) <= Stamped(messages, t)
                   /\ Stamped(r, t) < Stamped(messages, t) => t <= r[1].created_at
  /\ (resp.op = "messages" /\ session[resp.ctx].userId = NoId) =>
       resp.status = 401 /\ resp.rows = <<>>

\* reached: a log longer than the limit whose newest rows were inserted first
\* is answered with exactly 100 rows, the oldest of them first, and the oldest
\* rows of the log left out
C15_Witness ==
  /\ resp.op = "messages" /\ resp.status = 200
  /\ Len(messages) = 102
  /\ messages[1].created_at = 102
  /\ Len(resp.rows) = 100
  /\ resp.rows[1].created_at = 3 /\ resp.rows[100].created_at = 102

\* C21: an authenticate of app.js for user U calls disconnect(true) on at most
\* one socket, never on the socket that authenticates, and only on a socket
\* that is bound to U when the step begins.
C21_SupersessionHasNoCollateralVictim ==
  [][ (build = "app" /\ last'.op = "authenticate" /\ last'.ok)
        => /\ Cardinality(last'.kicked) <= 1
           /\ \A a \in last'.kicked : a # last'.c /\ userId[a] = last'.uid ]_vars

\* C22 as stated: no message of a connection is stored and broadcast after
\* disconnect(true) was called on it.
C22_NoMessageAfterSupersession ==
  ~(build = "app" /\ last.op = "query_done" /\ last.ok /\ last.pre = "closing"
      /\ userSockets[messages[Len(messages)].user_id] \notin {NoConn, last.c})

\* the queries in flight that socket c sent
InFlight(seq, c) == Cardinality({i \in 1..Len(seq) : seq[i].c = c})

\* C22: in app.js an authenticate for a user whose registry entry is another
\* socket io knows leaves that socket not open; a socket that is not open never
\* opens again, has no send_message handled and gets no new query in flight;
\* and no new_message is addressed to a socket whose disconnect handler has
\* run.  The queries it had in flight are not withdrawn.
C22_SupersededSendsNothingNew ==
  [][ build = "app" =>
      /\ (last'.op = "authenticate" /\ last'.ok /\ last'.old \in IoSockets \ {last'.c})
           => status'[last'.old] \in {"closing", "closed"}
      /\ \A c \in Conns :
            status[c] \in {"closing", "closed"}
              => /\ status'[c] \in {"closing", "closed"}
                 /\ ~(last'.op = "send_message" /\ last'.c = c)
                 /\ InFlight(pending', c) <= InFlight(pending, c)
      /\ \A e \in emitted' : e.ev = "new_message" => status'[e.to] # "closed" ]_vars

\* reached: B superseded A for a user while a send of A was in flight; A is
\* not open, B is the registry's open entry, and A's message has just been
\* stored and broadcast to B
C22_Witness ==
  /\ build = "app"
  /\ last.op = "query_done" /\ last.ok
  /\ last.pre \in {"closing", "closed"}
  /\ messages # <<>>
  /\ LET row == messages[Len(messages)]
         b == userSockets[row.user_id]
     IN /\ b \in Conns \ {last.c}
        /\ status[b] = "open" /\ userId[b] = row.user_id
        /\ userId[last.c] = row.user_id
        /\ \E e \in emitted : e.ev = "new_message" /\ e.to = b /\ e.message = row.message

\* C23: the page emits send_message only while its socket is connected and
\* socketAuthenticated is true, and socketAuthenticated is true only while the
\* socket is connected and has received 'authenticated' since its last connect
\* with no disconnect, auth_error or logout since.
C23_ClientGate ==
  [][ /\ (Len(toServer') = Len(toServer) + 1 /\ toServer'[Len(toServer')].ev = "send_message")
           => (socket = "connected" /\ socketAuthenticated /\ heard)
      /\ socketAuthenticated' => (heard' /\ socket' = "connected") ]_vars

\* reached: after a logout and a login as another user the page's second
\* socket is connected, has received 'authenticated', and a send_message it
\* emitted is on its way
C23_Witness ==
  /\ socket = "connected" /\ socketAuthenticated /\ heard
  /\ opened = {1, 2} /\ conn = 2
  /\ currentUserId = 2
  /\ userId[1] = 1
  /\ toServer # <<>> /\ toServer[Len(toServer)].ev = "send_message"

\* the steps of C24: what the 'connect' listener emits, what the server's
\* authenticate handler records
C24_EmitsAndRegisters ==
  /\ (socket # "connected" /\ socket' = "connected") =>
       (/\ currentUser # NoName /\ currentUserId # NoId
        /\ toServer' = <<Packet("authenticate", Auth(currentUserId, currentUser),
                                NoMsgData)>>)
  /\ (/\ toServer # <<>>
      /\ Head(toServer).ev = "authenticate"
      /\ conn' = conn
      /\ toServer' = Tail(toServer)) =>
       (/\ userSockets'[Head(toServer).auth.userId] = conn
        /\ userId'[conn] = Head(toServer).auth.userId
        /\ username'[conn] = Head(toServer).auth.username)

\* C24: the 'connect' listener of a page that holds an identity emits
\* authenticate with currentUserId and currentUser; when the server handles it
\* the registry maps that user to the page's connection; and, every arrived
\* event being handled, a page whose socket is connected on connection c
\* comes to have socketAuthenticated = TRUE unless it leaves c (the transport
\* closes, or the page logs out).
C24_ReconnectReauthenticates ==
  /\ [][C24_EmitsAndRegisters]_vars
  /\ \A c \in Conns :
        (conn = c /\ socket = "connected") ~> (socketAuthenticated \/ conn # c)

\* reached: the page lost its first connection, reconnected, and its second
\* connection is the registry's entry for its user and authenticated
C24_Witness ==
  /\ socket = "connected" /\ socketAuthenticated
  /\ opened = {1, 2} /\ conn = 2
  /\ fetches = {} /\ view = "chat"
  /\ userId[1] = currentUserId
  /\ userSockets[currentUserId] = 2 /\ userId[2] = currentUserId
  /\ status[2] = "open"

====
